---- MODULE Spec2Model ----
(***************************************************************************)
(* Model of GPyOpt/acquisitions/EI_DFT.py and of its earlier copy          *)
(* EI_DFT_safecopy20221117.py: the Expected-Improvement acquisition that   *)
(* is multiplied by a data-fusion probability P.                            *)
(*                                                                         *)
(* Numbers.  A float is modelled as a pair <<n, d>>: the rational n/d in   *)
(* lowest terms when d > 0, and the IEEE specials when d = 0:               *)
(* <<0,0>> is NaN, <<1,0>> is +inf, <<-1,0>> is -inf.  Python's None, where *)
(* a number is expected, is <<0,-1>>.  Arithmetic on rationals is exact;    *)
(* the two places where float64 rounding decides the result (the overflow  *)
(* of np.exp and the absorption of a tiny addend by 1.0) are modelled in    *)
(* inv_sigmoid.                                                            *)
(*                                                                         *)
(* A batch x of shape [n, d] is a sequence of n rows, each a sequence of d  *)
(* numbers; a column vector of shape [n, 1] is a sequence of n numbers.     *)
(***************************************************************************)
EXTENDS Integers, Sequences, FiniteSets, TLC

\* ------------------------------------------------------------------ bounds
\* largest number of input dimensions d of a candidate batch
MaxD == 3

\* ----------------------------------------------------------------- numbers
Abs(n) == IF n < 0 THEN -n ELSE n
Sign(n) == IF n < 0 THEN -1 ELSE IF n > 0 THEN 1 ELSE 0

RECURSIVE GCD(_, _)
GCD(a, b) == IF b = 0 THEN a ELSE GCD(b, a % b)

Norm(n, d) ==
    IF d = 0 THEN <<Sign(n), 0>>
    ELSE LET g == GCD(Abs(n), Abs(d))
         IN  <<(Sign(d) * n) \div g, Abs(d) \div g>>

NaN == <<0, 0>>
PInf == <<1, 0>>
NInf == <<-1, 0>>
None == <<0, -1>>
Zero == <<0, 1>>
One == <<1, 1>>
Half == <<1, 2>>

IsNaN(a) == a = NaN
IsFinite(a) == a[2] > 0

RNeg(a) == <<-a[1], a[2]>>
RAdd(a, b) ==
    IF a[2] # 0 /\ b[2] # 0
    THEN LET g == GCD(Abs(a[2]), Abs(b[2]))
         IN  Norm(a[1] * (b[2] \div g) + b[1] * (a[2] \div g), (a[2] \div g) * b[2])
    ELSE IF a = NaN \/ b = NaN THEN NaN
    ELSE IF a[2] = 0 /\ b[2] = 0 THEN (IF a = b THEN a ELSE NaN)
    ELSE IF a[2] = 0 THEN a ELSE b
RSub(a, b) == RAdd(a, RNeg(b))
RMul(a, b) ==
    IF a[2] # 0 /\ b[2] # 0
    THEN LET p == Norm(a[1], b[2])
             q == Norm(b[1], a[2])
         IN  Norm(p[1] * q[1], p[2] * q[2])
    ELSE Norm(a[1] * b[1], a[2] * b[2])
RInv(a) == Norm(a[2], a[1])
RDiv(a, b) == RMul(a, RInv(b))
RFloor(a) == IF a[1] >= 0 THEN a[1] \div a[2] ELSE -((-a[1] + a[2] - 1) \div a[2])
RLess(a, b) ==
    IF a = NaN \/ b = NaN THEN FALSE
    ELSE IF a[2] = 0 \/ b[2] = 0
    THEN a # b /\ (a = NInf \/ b = PInf)
    ELSE IF RFloor(a) # RFloor(b) THEN RFloor(a) < RFloor(b)
    ELSE (a[1] - RFloor(a) * a[2]) * b[2] < (b[1] - RFloor(b) * b[2]) * a[2]
RLeq(a, b) == a # NaN /\ b # NaN /\ (a = b \/ RLess(a, b))

RECURSIVE Pow2(_)
Pow2(k) == IF k = 0 THEN 1 ELSE 2 * Pow2(k - 1)

\* ---------------------------------------------------------------- matrices
Rows(x) == Len(x)
Cols(x) == Len(x[1])
RowSum(row) ==
    LET RECURSIVE S(_)
        S(i) == IF i = 0 THEN Zero ELSE RAdd(S(i - 1), row[i])
    IN  S(Len(row))
HasNaN(x) == \E r \in 1..Rows(x) : \E c \in 1..Cols(x) : IsNaN(x[r][c])

\* x.copy() followed by x_c[:, i] = x_c[:, i] + step
ShiftColumn(x, i, step) ==
    [r \in 1..Rows(x) |-> [c \in 1..Cols(x) |->
        IF c = i THEN RAdd(x[r][c], step) ELSE x[r][c]]]

\* --------------------------------------------------- the auxiliary surrogate
\* A fitted GPy regression model is known here by what the acquisition reads
\* from it: its noise-free posterior mean, c0 + w * (sum of the coordinates of
\* the point), and kern.lengthscale / kern.variance.  `none` is Python's None.
NoModel == [none |-> TRUE, c0 |-> Zero, w |-> Zero,
            lengthscale |-> None, variance |-> None]
Fitted(c0, w, ls, var) == [none |-> FALSE, c0 |-> c0, w |-> w,
                           lengthscale |-> ls, variance |-> var]

\* GP_model.predict_noiseless(points)[0]: the posterior mean, shape [n, 1]
predict_noiseless(model, points) ==
    [r \in 1..Rows(points) |-> RAdd(model.c0, RMul(model.w, RowSum(points[r])))]

\* GP_model.predict_quantiles(points): a (lower, upper) pair of [n, 1] vectors
predict_quantiles(model, points) ==
    LET mean == predict_noiseless(model, points)
    IN  <<[r \in 1..Rows(points) |-> RSub(mean[r], model.variance)],
          [r \in 1..Rows(points) |-> RAdd(mean[r], model.variance)]>>

\* ------------------------------------------------------------- inv_sigmoid
\* float64: np.exp(t) overflows to +inf for t > 709.782712893384
ExpOverflow == <<709783, 1000>>
\* float64: np.exp(t) <= 2^-53 for t <= -53 ln 2 = -36.7368005696771, and
\* 1 + y rounds to exactly 1.0 for every 0 <= y <= 2^-53
ExpAbsorbed == <<-36737, 1000>>
\* a rational stand-in for log2(e), used only between the two thresholds
Log2e == <<3, 2>>

\* np.exp(t) for a finite t between the thresholds: 2^k * (1 + f) with
\* k + f = t * log2(e), 0 <= f < 1 (exact at t = 0, strictly increasing)
ExpMid(t) ==
    LET y == RMul(t, Log2e)
        k == RFloor(y)
        f == RSub(y, <<k, 1>>)
        m == RAdd(One, f)
    IN  IF k >= 0 THEN RMul(<<Pow2(k), 1>>, m) ELSE RMul(<<1, Pow2(-k)>>, m)

\* 1 + np.exp(t) in float64
OnePlusExp(t) ==
    IF IsNaN(t) THEN NaN
    ELSE IF t = PInf \/ RLess(ExpOverflow, t) THEN PInf
    ELSE IF t = NInf \/ RLeq(t, ExpAbsorbed) THEN One
    ELSE RAdd(One, ExpMid(t))

\* a sigmoid centred at 0 whatever the midpoint
inv_sigmoid_unshifted(mean, midpoint, beta) ==
    RDiv(One, OnePlusExp(RDiv(mean, beta)))

\* f = 1/(1+np.exp((mean-midpoint)/beta)), elementwise
inv_sigmoid(mean, midpoint, beta) ==
    RDiv(One, OnePlusExp(RDiv(RSub(mean, midpoint), beta)))

\* ------------------------------------------------------------------ calc_P
\* a calc_P whose None branch gives probability 0 instead of 1
calc_P_zero_fallback(points, gp_model, beta, midpoint) ==
    IF ~gp_model.none
    THEN LET mean == predict_noiseless(gp_model, points)
         IN  <<mean, [r \in 1..Rows(points) |-> inv_sigmoid(mean[r], midpoint, beta)]>>
    ELSE <<[r \in 1..Rows(points) |-> Half], [r \in 1..Rows(points) |-> Zero]>>

\* EI_DFT.py: returns the 2-tuple (mean, propability)
calc_P(points, gp_model, beta, midpoint) ==
    IF ~gp_model.none
    THEN LET mean == predict_noiseless(gp_model, points)
         IN  <<mean, [r \in 1..Rows(points) |-> inv_sigmoid(mean[r], midpoint, beta)]>>
    ELSE <<[r \in 1..Rows(points) |-> RAdd(Zero, Half)],
           [r \in 1..Rows(points) |-> One]>>

\* EI_DFT_safecopy20221117.py: returns the 3-tuple (mean, propability, conf_interval)
calc_P_safecopy(points, gp_model, beta, midpoint) ==
    IF ~gp_model.none
    THEN LET mean == predict_noiseless(gp_model, points)
         IN  <<mean,
               [r \in 1..Rows(points) |->
                   RDiv(One, OnePlusExp(RDiv(RSub(mean[r], midpoint), beta)))],
               predict_quantiles(gp_model, points)>>
    ELSE <<[r \in 1..Rows(points) |-> RAdd(Zero, Half)],
           [r \in 1..Rows(points) |-> One],
           <<[r \in 1..Rows(points) |-> Zero], [r \in 1..Rows(points) |-> One]>>>>

\* the module-level name calc_P as bound in each of the two files
CalcP(v, points, gp_model, beta, midpoint) ==
    IF v = "safecopy" THEN calc_P_safecopy(points, gp_model, beta, midpoint)
    ELSE calc_P(points, gp_model, beta, midpoint)

\* ------------------------------------------------------ calc_gradient_of_P
\* a perturbation that would subtract delta_x from x itself
Perturb_in_place(x, i, delta_x) ==
    [x_l |-> ShiftColumn(x, i, RNeg(delta_x)),
     x_u |-> ShiftColumn(x, i, delta_x),
     x |-> ShiftColumn(x, i, RNeg(delta_x))]

\* lines 186-190: x_l and x_u are x.copy(), and column i of the copies is
\* shifted by -delta_x and +delta_x; `x` is the caller's array afterwards
Perturb(x, i, delta_x) ==
    [x_l |-> ShiftColumn(x, i, RNeg(delta_x)),
     x_u |-> ShiftColumn(x, i, delta_x),
     x |-> x]

\* column i of the gradient: np.ravel((p_u - p_l)/(2*delta_x)), lines 186-196
GradColumn(v, x, constraint_model, beta, midpoint, delta_x, i) ==
    LET x_l == Perturb(x, i, delta_x).x_l
        x_u == Perturb(x, i, delta_x).x_u
        p_l == CalcP(v, x_l, constraint_model, beta, midpoint)[2]
        p_u == CalcP(v, x_u, constraint_model, beta, midpoint)[2]
    IN  [r \in 1..Rows(x) |-> RDiv(RSub(p_u[r], p_l[r]), RMul(<<2, 1>>, delta_x))]

SetColumn(g, i, col) ==
    [r \in 1..Len(g) |-> [c \in 1..Len(g[r]) |-> IF c = i THEN col[r] ELSE g[r][c]]]

\* `empty` is what np.empty(x.shape) holds.  The loop over range(x.shape[1])
\* starts at the first dimension, and line 198, `return g`, stands inside the
\* loop body: the function returns at the end of the first iteration.
\* `written` is the set of columns of g assigned before the return, `x` the
\* caller's batch after the call and `delta` the step delta_x of line 180.
calc_gradient_of_P(v, x, constraint_model, beta, midpoint, lengthscale, empty) ==
    LET delta_x == RDiv(lengthscale, <<1000, 1>>)
        i == 1
    IN  [g |-> SetColumn(empty, i,
                  GradColumn(v, x, constraint_model, beta, midpoint, delta_x, i)),
         written |-> {i},
         x |-> Perturb(x, i, delta_x).x,
         delta |-> delta_x]

\* ---------------------------------------------- the primary model (external)
\* The GPyOpt model of the objective, known by what the acquisition asks of
\* it.  pm = [m0, mw, s0, sw, fmin]: mean m0 + mw * sum(row), standard
\* deviation s0 + sw * sum(row); a NaN coordinate makes the row's outputs NaN.
predict(pm, x) ==
    <<[r \in 1..Rows(x) |-> RAdd(pm.m0, RMul(pm.mw, RowSum(x[r])))],
      [r \in 1..Rows(x) |-> RAdd(pm.s0, RMul(pm.sw, RowSum(x[r])))]>>

predict_withGradients(pm, x) ==
    <<predict(pm, x)[1], predict(pm, x)[2],
      [r \in 1..Rows(x) |-> [c \in 1..Cols(x) |->
          IF IsNaN(RowSum(x[r])) THEN NaN ELSE pm.mw]],
      [r \in 1..Rows(x) |-> [c \in 1..Cols(x) |->
          IF IsNaN(RowSum(x[r])) THEN NaN ELSE pm.sw]]>>

get_fmin(pm) == pm.fmin

RMax(a, b) == IF IsNaN(a) \/ IsNaN(b) THEN NaN ELSE IF RLess(a, b) THEN b ELSE a
RMin(a, b) == IF IsNaN(a) \/ IsNaN(b) THEN NaN ELSE IF RLess(a, b) THEN a ELSE b
RAbs(a) == <<Abs(a[1]), a[2]>>

\* rational stand-ins for the standard normal density and distribution function
NormPdf(u) == RMax(Zero, RSub(<<2, 5>>, RDiv(RAbs(u), <<5, 1>>)))
NormCdf(u) == RMin(One, RMax(Zero, RAdd(Half, RDiv(u, <<4, 1>>))))

\* GPyOpt.util.general.get_quantiles: (phi, Phi, u), each of shape [n, 1],
\* with u = (fmin - m - jitter)/s
get_quantiles(jitter, fmin, m, s) ==
    LET u == [r \in 1..Len(m) |-> RDiv(RSub(RSub(fmin, m[r]), jitter), s[r])]
    IN  <<[r \in 1..Len(m) |-> NormPdf(u[r])],
          [r \in 1..Len(m) |-> NormCdf(u[r])],
          u>>

\* ------------------------------------------------------------ the instance
\* an attribute that was never assigned: reading it raises AttributeError
Unset == <<0, -2>>

\* what a call leaves behind: how it ended, what it returned, and the
\* intermediate values the acquisition computes on the way
NoCall == [op |-> "none", outcome |-> "none", x |-> <<>>, model |-> NoModel,
           predicted |-> FALSE, ei |-> <<>>, dei |-> <<>>, mean |-> <<>>,
           prob |-> <<>>, dprob |-> <<>>, written |-> {}, value |-> <<>>,
           grad |-> <<>>, arity |-> 0, beta |-> Unset, midpoint |-> Unset,
           lengthscale |-> Unset, x_after |-> <<>>, delta |-> Unset]

\* lines 134-137: f_acqu = s * (u * Phi + phi) from the quantiles q
EIq(q, s) == [r \in 1..Len(s) |-> RMul(s[r], RAdd(RMul(q[3][r], q[2][r]), q[1][r]))]
PrimaryEI(jitter, fmin, ms) == EIq(get_quantiles(jitter, fmin, ms[1], ms[2]), ms[2])

\* lines 151-155: f_acqu as above and df_acqu = dsdx * phi - Phi * dmdx
EIGradq(q, pg) ==
    [ei |-> EIq(q, pg[2]),
     dei |-> [r \in 1..Len(pg[3]) |-> [c \in 1..Len(pg[3][r]) |->
                RSub(RMul(pg[4][r][c], q[1][r]), RMul(q[2][r], pg[3][r][c]))]]]
PrimaryEIGrad(jitter, fmin, pg) == EIGradq(get_quantiles(jitter, fmin, pg[1], pg[2]), pg)

\* a call on the instance slf with the batch x, before it has ended
Started(op, slf, x) ==
    [NoCall EXCEPT !.op = op, !.x = x, !.model = slf.constraint_model,
                   !.beta = slf.beta, !.midpoint = slf.midpoint,
                   !.lengthscale = slf.lengthscale, !.predicted = TRUE]

\* lines 139-145, P being what calc_P returned: f_acqu = f_acqu * prob
AcqValue(c, f_acqu, P) ==
    [c EXCEPT !.outcome = "returned", !.ei = f_acqu, !.mean = P[1], !.prob = P[2],
              !.arity = Len(P),
              !.value = [r \in 1..Len(f_acqu) |-> RMul(f_acqu[r], P[2][r])]]

\* _compute_acq(self, x), EI_DFT.py lines 130-145 (safecopy lines 59-72).
\* The primary model is asked first; self.midpoint is read at line 139.
compute_acq(v, slf, pm, x) ==
    IF slf.midpoint = Unset
    THEN [Started("_compute_acq", slf, x) EXCEPT
             !.outcome = "AttributeError",
             !.ei = PrimaryEI(slf.jitter, get_fmin(pm), predict(pm, x))]
    ELSE AcqValue(Started("_compute_acq", slf, x),
                  PrimaryEI(slf.jitter, get_fmin(pm), predict(pm, x)),
                  CalcP(v, x, slf.constraint_model, slf.beta, slf.midpoint))

\* an evaluation that would return the plain expected improvement
TimesProb_unscaled(f_acqu, prob) == f_acqu

\* the value f_acqu * prob of line 166
TimesProb(f_acqu, prob) == [r \in 1..Len(f_acqu) |-> RMul(f_acqu[r], prob[r])]

\* line 171, df_acqu = df_acqu * prob + f_acqu * d_prob, f_acqu being the
\* value line 166 has already multiplied by prob
ProductRule(df_acqu, prob, f_acqu, d_prob) ==
    [r \in 1..Len(df_acqu) |-> [k \in 1..Len(df_acqu[r]) |->
        RAdd(RMul(df_acqu[r][k], prob[r]), RMul(f_acqu[r], d_prob[r][k]))]]

\* lines 161-175, e being (f_acqu, df_acqu) of lines 154-155, P what calc_P
\* returned and G what calc_gradient_of_P returned
AcqGradient(c, e, P, G) ==
    [c EXCEPT !.outcome = "returned", !.ei = e.ei, !.dei = e.dei, !.mean = P[1],
              !.prob = P[2], !.arity = Len(P), !.dprob = G.g, !.written = G.written,
              !.x_after = G.x, !.delta = G.delta,
              !.value = TimesProb(e.ei, P[2]),
              !.grad = ProductRule(e.dei, P[2], TimesProb(e.ei, P[2]), G.g)]

AcqGradientRaised(c, e) ==
    [c EXCEPT !.outcome = "AttributeError", !.ei = e.ei, !.dei = e.dei]

\* _compute_acq_withGradients(self, x), EI_DFT.py lines 147-175 (safecopy
\* lines 74-101).  The NaN test of line 157 only builds a message.
compute_acq_withGradients(v, slf, pm, x, empty) ==
    IF slf.midpoint = Unset
    THEN AcqGradientRaised(Started("_compute_acq_withGradients", slf, x),
             PrimaryEIGrad(slf.jitter, get_fmin(pm), predict_withGradients(pm, x)))
    ELSE AcqGradient(Started("_compute_acq_withGradients", slf, x),
             PrimaryEIGrad(slf.jitter, get_fmin(pm), predict_withGradients(pm, x)),
             CalcP(v, x, slf.constraint_model, slf.beta, slf.midpoint),
             calc_gradient_of_P(v, x, slf.constraint_model, slf.beta, slf.midpoint,
                                slf.lengthscale, empty))

\* ---------------------------------------------------------------- datasets
\* A pandas DataFrame: its column names and its rows (one number per column).
\* `none` is Python's None in the place of a DataFrame.
NoneData == [none |-> TRUE, cols |-> <<>>, rows |-> <<>>]
\* Python's None in the place of a list of column names
NoneList == <<"<None>">>

ColIndex(cols, name) == CHOOSE j \in 1..Len(cols) : cols[j] = name
HasCol(cols, name) == \E j \in 1..Len(cols) : cols[j] = name
\* data[names].values
Select(data, names) ==
    [r \in 1..Len(data.rows) |-> [j \in 1..Len(names) |->
        data.rows[r][ColIndex(data.cols, names[j])]]]

\* all entries of a matrix, row after row
Flatten(X) ==
    LET RECURSIVE F(_)
        F(r) == IF r = 0 THEN <<>> ELSE F(r - 1) \o X[r]
    IN  F(Len(X))
SeqSum(v) == RowSum(v)
SeqMax(v) ==
    LET RECURSIVE M(_)
        M(i) == IF i = 1 THEN v[1] ELSE RMax(M(i - 1), v[i])
    IN  M(Len(v))
SeqMin(v) ==
    LET RECURSIVE M(_)
        M(i) == IF i = 1 THEN v[1] ELSE RMin(M(i - 1), v[i])
    IN  M(Len(v))
\* numpy's ndarray.var(): the population variance
Var(v) ==
    LET n == <<Len(v), 1>>
        mu == RDiv(SeqSum(v), n)
    IN  RDiv(SeqSum([i \in 1..Len(v) |-> RMul(RSub(v[i], mu), RSub(v[i], mu))]), n)

\* A hyperparameter bound or noise level a + e * 1e-12 is the pair <<a, e>>.
\* 1e-12 is far below every difference between the a-parts that occur, so
\* the order is lexicographic.
Plain(a) == <<a, Zero>>
Tiny(e) == <<Zero, e>>
EAdd(p, q) == <<RAdd(p[1], q[1]), RAdd(p[2], q[2])>>
ELess(p, q) == RLess(p[1], q[1]) \/ (p[1] = q[1] /\ RLess(p[2], q[2]))
ELeq(p, q) == p = q \/ ELess(p, q)
EPositive(p) == ELess(Plain(Zero), p)

NoGP == [called |-> FALSE, outcome |-> "none", model |-> NoModel,
         variance_arg |-> None, noise_var |-> Plain(Zero), kernel_var |-> Zero,
         kernel_ls |-> Zero, noise_lo |-> Plain(Zero), noise_hi |-> Plain(Zero),
         var_lo |-> Plain(Zero), var_hi |-> Plain(Zero), ymax2 |-> None,
         bounded |-> 0, optimized |-> 0]

\* paramz's constrain_bounded(lower, upper) builds Logistic(lower, upper),
\* whose constructor asserts lower < upper
constrain_bounded_ok(lower, upper) == ELess(lower, upper)

\* lines 224-234: the initial noise variance
noise_var_init(noise_variance, Y) ==
    IF noise_variance = None \/ RLeq(noise_variance, Zero)
    THEN (IF RMul(<<1, 100>>, Var(Y)) = Zero THEN Tiny(One)
          ELSE Plain(RMul(<<1, 100>>, Var(Y))))
    ELSE Plain(noise_variance)

\* an initial kernel variance without the floor for a constant target
kernel_var_init_unfloored(variance, Y) ==
    IF variance = None \/ RLeq(variance, Zero) THEN Var(Y) ELSE variance

\* lines 244-252: the initial kernel variance
kernel_var_init(variance, Y) ==
    IF variance = None \/ RLeq(variance, Zero)
    THEN (IF Var(Y) = Zero THEN One ELSE Var(Y))
    ELSE variance

\* lines 254-262: the initial kernel lengthscale
kernel_ls_init(lengthscale, X) ==
    IF lengthscale = None \/ RLeq(lengthscale, Zero)
    THEN (IF RSub(SeqMax(Flatten(X)), SeqMin(Flatten(X))) = Zero THEN One
          ELSE RSub(SeqMax(Flatten(X)), SeqMin(Flatten(X))))
    ELSE lengthscale

\* lines 278-282: the bounds of the kernel variance, from the argument
\* `variance` as passed, and the fit
VarianceBounds(g, variance, ymax2, fit) ==
    IF variance = None
    THEN [g EXCEPT !.outcome = "TypeError", !.bounded = 1]
    ELSE IF ~constrain_bounded_ok(Tiny(variance), Plain(RAdd(variance, ymax2)))
    THEN [g EXCEPT !.var_lo = Tiny(variance), !.var_hi = Plain(RAdd(variance, ymax2)),
                   !.outcome = "AssertionError", !.bounded = 1]
    ELSE [g EXCEPT !.var_lo = Tiny(variance), !.var_hi = Plain(RAdd(variance, ymax2)),
                   !.outcome = "returned", !.bounded = 2, !.optimized = 1,
                   !.model = Fitted(fit.c0, fit.w, fit.ls, g.kernel_var)]

\* lines 266-274: kernel and regression from the initial values, then the
\* bounds [noise_var_limit, noise_var + max(Y)^2] of the noise variance
NoiseBounds(g, variance, ymax2, fit) ==
    IF ~constrain_bounded_ok(Tiny(One), EAdd(g.noise_var, Plain(ymax2)))
    THEN [g EXCEPT !.noise_lo = Tiny(One), !.noise_hi = EAdd(g.noise_var, Plain(ymax2)),
                   !.outcome = "AssertionError"]
    ELSE VarianceBounds(
             [g EXCEPT !.noise_lo = Tiny(One),
                       !.noise_hi = EAdd(g.noise_var, Plain(ymax2))],
             variance, ymax2, fit)

\* lines 218-282, X and Y being the selected columns
GP_fit(X, Y, lengthscale, variance, noise_variance, fit) ==
    NoiseBounds([NoGP EXCEPT !.called = TRUE, !.variance_arg = variance,
                             !.noise_var = noise_var_init(noise_variance, Y),
                             !.kernel_var = kernel_var_init(variance, Y),
                             !.kernel_ls = kernel_ls_init(lengthscale, X),
                             !.ymax2 = RMul(SeqMax(Y), SeqMax(Y))],
                variance, RMul(SeqMax(Y), SeqMax(Y)), fit)

\* data[input_variables] or data[[target_variable]] raises KeyError
MissingColumn(data, target, input_variables) ==
    \/ input_variables = NoneList
    \/ \E j \in 1..Len(input_variables) : ~HasCol(data.cols, input_variables[j])
    \/ ~HasCol(data.cols, target)

\* GP_model(...), EI_DFT.py lines 202-288.  `fit` is what optimize_restarts
\* leaves: the posterior mean and the kernel lengthscale.
GP_model(data_fusion_data, data_fusion_target_variable, lengthscale, variance, noise_variance, data_fusion_input_variables, fit) ==
    IF data_fusion_data.none \/ Len(data_fusion_data.rows) = 0
    THEN [NoGP EXCEPT !.called = TRUE, !.variance_arg = variance,
                      !.outcome = "returned"]
    ELSE IF MissingColumn(data_fusion_data, data_fusion_target_variable,
                          data_fusion_input_variables)
    THEN [NoGP EXCEPT !.called = TRUE, !.variance_arg = variance,
                      !.outcome = "KeyError"]
    ELSE GP_fit(Select(data_fusion_data, data_fusion_input_variables),
                Flatten(Select(data_fusion_data, <<data_fusion_target_variable>>)),
                lengthscale, variance, noise_variance, fit)

\* lines 142-154 of the safecopy: the RBF kernel with the arguments as given,
\* the variance bounded to [variance*1e-6, variance*1e6], one model.optimize
GP_fit_safecopy(lengthscale, variance, fit) ==
    IF variance = None
    THEN [NoGP EXCEPT !.called = TRUE, !.variance_arg = variance,
                      !.outcome = "TypeError"]
    ELSE IF ~constrain_bounded_ok(Plain(RMul(variance, <<1, 1000000>>)),
                                  Plain(RMul(variance, <<1000000, 1>>)))
    THEN [NoGP EXCEPT !.called = TRUE, !.variance_arg = variance,
                      !.kernel_var = variance, !.kernel_ls = lengthscale,
                      !.var_lo = Plain(RMul(variance, <<1, 1000000>>)),
                      !.var_hi = Plain(RMul(variance, <<1000000, 1>>)),
                      !.outcome = "AssertionError"]
    ELSE [NoGP EXCEPT !.called = TRUE, !.variance_arg = variance,
                      !.kernel_var = variance, !.kernel_ls = lengthscale,
                      !.var_lo = Plain(RMul(variance, <<1, 1000000>>)),
                      !.var_hi = Plain(RMul(variance, <<1000000, 1>>)),
                      !.outcome = "returned", !.bounded = 1, !.optimized = 1,
                      !.model = Fitted(fit.c0, fit.w, fit.ls, variance)]

\* GP_model(...), EI_DFT_safecopy20221117.py lines 128-156
GP_model_safecopy(data_fusion_data, data_fusion_target_variable, lengthscale, variance, data_fusion_input_variables, fit) ==
    IF data_fusion_data.none \/ Len(data_fusion_data.rows) = 0
    THEN [NoGP EXCEPT !.called = TRUE, !.variance_arg = variance,
                      !.outcome = "returned"]
    ELSE IF MissingColumn(data_fusion_data, data_fusion_target_variable,
                          data_fusion_input_variables)
    THEN [NoGP EXCEPT !.called = TRUE, !.variance_arg = variance,
                      !.outcome = "KeyError"]
    ELSE GP_fit_safecopy(lengthscale, variance, fit)

\* ------------------------------------------------------------------ plot_P
\* create_ternary_grid(): points of the composition triangle (three of them
\* stand for the grid)
create_ternary_grid == <<<<One, Zero, Zero>>, <<Zero, One, Zero>>, <<Zero, Zero, One>>>>

\* plot_P(gp_model, beta, data_type, midpoint), EI_DFT.py lines 347-373 and
\* safecopy lines 208-236: line 368 unpacks calc_P's result into three names
PlotUnpack(P) ==
    IF Len(P) # 3 THEN [outcome |-> "ValueError", minP |-> NaN, maxP |-> NaN]
    ELSE [outcome |-> "returned", minP |-> SeqMin(P[2]), maxP |-> SeqMax(P[2])]
plot_P(v, gp_model, beta, midpoint) ==
    PlotUnpack(CalcP(v, create_ternary_grid, gp_model, beta, midpoint))

\* ------------------------------------------------------------- constructors
Keys == {"df_data", "df_target_var", "df_input_var", "gp_lengthscale",
         "gp_variance", "p_beta", "p_midpoint", "df_model"}

\* the dictionary __init__ builds when ei_dft_params is None, lines 46-54
DefaultParams ==
    [isNone |-> FALSE, has |-> Keys, df_data |-> NoneData,
     df_target_var |-> "<None>", df_input_var |-> NoneList,
     gp_lengthscale |-> <<3, 100>>, gp_variance |-> <<2, 1>>,
     p_beta |-> <<1, 40>>, p_midpoint |-> Zero, df_model |-> NoModel]

NoSelf == [jitter |-> Unset, data_fusion_target_variable |-> "<None>",
           data_fusion_input_variables |-> NoneList, constraint_model |-> NoModel,
           data_fusion_data |-> NoneData, lengthscale |-> Unset,
           variance |-> Unset, beta |-> Unset, midpoint |-> Unset]

Recognised == {"dGmix (ev/f.u.)", "Yellowness"}

\* what __init__ leaves: how it ended, the attributes, the GP_model call
Ended(outcome, slf, gpr) == [outcome |-> outcome, self |-> slf, gp |-> gpr]

\* lines 113-124 (safecopy lines 47-53), given the attributes set so far
PlotStep(v, slf, gpr) ==
    IF slf.data_fusion_input_variables = NoneList
    THEN Ended("TypeError", slf, gpr)
    ELSE IF Len(slf.data_fusion_input_variables) = 3
            /\ slf.data_fusion_target_variable \in Recognised
    THEN (IF slf.midpoint = Unset THEN Ended("AttributeError", slf, gpr)
          ELSE IF plot_P(v, slf.constraint_model, slf.beta, slf.midpoint).outcome
                  = "returned"
          THEN Ended("constructed", slf, gpr)
          ELSE Ended("ValueError", slf, gpr))
    ELSE Ended("constructed", slf, gpr)

\* lines 101-109: an absent p_midpoint assigns self.beta = 0
BetaMidpointStep(slf, prm) ==
    IF "p_midpoint" \in prm.has
    THEN [slf EXCEPT !.beta = IF "p_beta" \in prm.has THEN prm.p_beta ELSE <<1, 40>>,
                     !.midpoint = prm.p_midpoint]
    ELSE [slf EXCEPT !.beta = Zero]

\* a constructor that would keep the lengthscale it was configured with
ReadBack_initial_guess(slf) ==
    [slf EXCEPT !.lengthscale = IF slf.lengthscale = Unset THEN <<3, 100>>
                                ELSE slf.lengthscale,
                !.variance = slf.constraint_model.variance]

\* lines 97-99: the hyperparameters are read back from the model
ReadBack(slf) ==
    [slf EXCEPT !.lengthscale = slf.constraint_model.lengthscale,
                !.variance = slf.constraint_model.variance]

\* lines 97-124, r being what lines 56-95 left
InitFinish(r, prm) ==
    IF r.outcome # "returned" THEN r
    ELSE IF r.self.constraint_model.none THEN Ended("AttributeError", r.self, r.gp)
    ELSE PlotStep("dict", BetaMidpointStep(ReadBack(r.self), prm), r.gp)

\* lines 73-95: the surrogate is built from df_data, gpr being what GP_model
\* returned (or raised)
BuiltModel(slf, data, ls0, var0, gpr) ==
    Ended(gpr.outcome,
          [slf EXCEPT !.data_fusion_data = data, !.lengthscale = ls0,
                      !.variance = var0, !.constraint_model = gpr.model],
          gpr)

\* lines 66-95, slf holding the attributes of lines 56-64
InitModel(slf, prm, fit) ==
    IF "df_model" \in prm.has
    THEN Ended("returned", [slf EXCEPT !.constraint_model = prm.df_model], NoGP)
    ELSE BuiltModel(slf,
             IF "df_data" \in prm.has THEN prm.df_data ELSE NoneData,
             IF "gp_lengthscale" \in prm.has THEN prm.gp_lengthscale ELSE <<3, 100>>,
             IF "gp_variance" \in prm.has THEN prm.gp_variance ELSE <<2, 1>>,
             GP_model(IF "df_data" \in prm.has THEN prm.df_data ELSE NoneData,
                      slf.data_fusion_target_variable,
                      IF "gp_lengthscale" \in prm.has THEN prm.gp_lengthscale
                      ELSE <<3, 100>>,
                      IF "gp_variance" \in prm.has THEN prm.gp_variance ELSE <<2, 1>>,
                      None, slf.data_fusion_input_variables, fit))

\* lines 56-64
InitAttrs(jitter, prm) ==
    [NoSelf EXCEPT
        !.jitter = jitter,
        !.data_fusion_target_variable =
            IF "df_target_var" \in prm.has THEN prm.df_target_var ELSE "<None>",
        !.data_fusion_input_variables =
            IF "df_input_var" \in prm.has THEN prm.df_input_var ELSE NoneList]

\* lines 42-54: the dictionary in use
ParamsInUse(ei_dft_params) ==
    IF ei_dft_params.isNone THEN DefaultParams ELSE ei_dft_params

\* AcquisitionEI_DFT.__init__, EI_DFT.py lines 36-124
AcquisitionEI_DFT_init(jitter, ei_dft_params, fit) ==
    InitFinish(InitModel(InitAttrs(jitter, ParamsInUse(ei_dft_params)),
                         ParamsInUse(ei_dft_params), fit),
               ParamsInUse(ei_dft_params))

\* lines 36-46 of the safecopy: every attribute from its keyword argument
InitAttrs_safecopy(jitter, kw) ==
    [NoSelf EXCEPT
        !.jitter = jitter,
        !.data_fusion_target_variable = kw.df_target_var,
        !.data_fusion_data = kw.df_data,
        !.variance = kw.gp_variance, !.lengthscale = kw.gp_lengthscale,
        !.beta = kw.p_beta, !.midpoint = kw.p_midpoint,
        !.data_fusion_input_variables = kw.df_input_var]

\* lines 46-53 of the safecopy, gpr being what GP_model returned (or raised)
InitFinish_safecopy(slf, gpr) ==
    IF gpr.outcome # "returned" THEN Ended(gpr.outcome, slf, gpr)
    ELSE PlotStep("safecopy", [slf EXCEPT !.constraint_model = gpr.model], gpr)

\* AcquisitionEI_DFT.__init__, EI_DFT_safecopy20221117.py lines 35-53; the
\* keyword arguments are passed as the fields of `kw`
AcquisitionEI_DFT_init_safecopy(jitter, kw, fit) ==
    InitFinish_safecopy(InitAttrs_safecopy(jitter, kw),
        GP_model_safecopy(kw.df_data, kw.df_target_var, kw.gp_lengthscale,
                          kw.gp_variance, kw.df_input_var, fit))

\* an evaluation that would replace the surrogate and its lengthscale
compute_acq_self_refit(slf) ==
    [slf EXCEPT !.constraint_model = Fitted(Zero, Zero, One, One),
                !.lengthscale = One]

\* the attributes of the instance after an evaluation call: neither
\* _compute_acq (lines 130-145) nor _compute_acq_withGradients (lines 147-175)
\* assigns to self, and calc_P / calc_gradient_of_P do not receive it
compute_acq_self(slf) == slf
compute_acq_withGradients_self(slf) == slf

\* ------------------------------------------------------------ input domains
AllNames == <<"CsPbI", "MAPbI", "FAPbI", "RbPbI", "KPbI">>
Names(d) == SubSeq(AllNames, 1, d)
Targets(d) == IF d = 3 THEN {"dGmix (ev/f.u.)", "Yellowness", "Tg"} ELSE {"dGmix (ev/f.u.)"}

ConstRow(d, a) == [c \in 1..d |-> a]
\* a row whose last coordinate is NaN
NaNRow(d) == [c \in 1..d |-> IF c = d THEN NaN ELSE Zero]
\* the first corner of the composition simplex
UnitRow(d) == [c \in 1..d |-> IF c = 1 THEN One ELSE Zero]
RowsOf(d) == {ConstRow(d, Zero), UnitRow(d), NaNRow(d)}
Batches(d) == {<<r>> : r \in RowsOf(d)} \cup {<<UnitRow(d), ConstRow(d, Zero)>>}

\* what np.empty may hold
Garbage == {Zero, <<3, 1>>}
EmptyMatrix(x, junk) == [r \in 1..Rows(x) |-> [c \in 1..Cols(x) |-> junk]]

\* two rows over Names(d) and the target column
Data(d, target, y1, y2) ==
    [none |-> FALSE, cols |-> Names(d) \o <<target>>,
     rows |-> <<ConstRow(d, Zero) \o <<y1>>, ConstRow(d, One) \o <<y2>>>>]
EmptyData(d, target) == [none |-> FALSE, cols |-> Names(d) \o <<target>>, rows |-> <<>>]
Datasets(d, target) ==
    {NoneData, EmptyData(d, target), Data(d, target, <<-1, 1>>, One),
     Data(d, target, <<-1, 1>>, <<-1, 1>>), Data(d, target, Zero, Zero)}

MConst == Fitted(<<-1, 1>>, Zero, <<1000, 1>>, <<2, 1>>)
MSlope == Fitted(Zero, <<1, 40>>, <<500, 1>>, <<2, 1>>)
Fits == {[c0 |-> <<-1, 1>>, w |-> Zero, ls |-> <<1000, 1>>],
         [c0 |-> Zero, w |-> <<1, 40>>, ls |-> <<500, 1>>]}

PrimaryModels == {[m0 |-> Zero, mw |-> One, s0 |-> One, sw |-> One, fmin |-> Zero]}
Jitter == <<1, 100>>

BaseParams(d, target) ==
    [isNone |-> FALSE, has |-> Keys, df_data |-> Data(d, target, <<-1, 1>>, One),
     df_target_var |-> target, df_input_var |-> Names(d),
     gp_lengthscale |-> <<3, 100>>, gp_variance |-> <<2, 1>>,
     p_beta |-> <<1, 40>>, p_midpoint |-> Zero, df_model |-> NoModel]

\* dictionaries with the key df_model
InjectParams(d, target) ==
    {[BaseParams(d, target) EXCEPT !.has = Keys \ miss, !.df_model = m] :
        m \in {NoModel, MConst, MSlope},
        miss \in {{}, {"p_midpoint"}, {"p_beta"}, {"df_input_var"}, {"df_data"}}}

\* dictionaries without the key df_model
BuildParams(d, target) ==
    {[BaseParams(d, target) EXCEPT !.has = (Keys \ {"df_model"}) \ miss] :
        miss \in {{}, {"p_midpoint"}, {"p_beta"}, {"gp_variance"}, {"gp_lengthscale"},
                  {"df_data"}, {"df_input_var"}, {"df_target_var"}}}
    \cup {[BaseParams(d, target) EXCEPT !.has = Keys \ {"df_model"},
                                         !.df_data = dd, !.gp_variance = vv] :
             dd \in Datasets(d, target), vv \in {<<2, 1>>, Zero, None}}

DictParams(d) ==
    {[DefaultParams EXCEPT !.isNone = TRUE]}
    \cup UNION {InjectParams(d, t) \cup BuildParams(d, t) : t \in Targets(d)}

\* keyword arguments of the safecopy constructor
KwParams(d) ==
    UNION {{[BaseParams(d, t) EXCEPT !.has = Keys \ {"df_model"}, !.df_data = dd,
                                     !.df_input_var = iv,
                                     !.gp_lengthscale = <<500, 1>>] :
               dd \in Datasets(d, t), iv \in {Names(d), NoneList}}
           \cup {[BaseParams(d, t) EXCEPT !.has = Keys \ {"df_model"},
                                          !.gp_variance = vv,
                                          !.gp_lengthscale = <<500, 1>>] :
               vv \in {Zero, None}} : t \in Targets(d)}

\* ------------------------------------------------------------ state machine
VARIABLES
    variant,   \* which of the two files is the module: "dict" or "safecopy"
    dim,       \* the number of input dimensions d of the search space
    primary,   \* the primary model the acquisition borrows
    pc,        \* "new", "constructed", or the exception __init__ raised
    self,      \* the attributes of the AcquisitionEI_DFT instance
    params,    \* the ei_dft_params (or keyword arguments) of the constructor
    gp,        \* what the constructor's GP_model call computed
    fits,      \* how many times the surrogate's hyperparameters were optimised
    call       \* the last evaluation call and what it returned

vars == <<variant, dim, primary, pc, self, params, gp, fits, call>>

Init ==
    /\ variant \in {"dict", "safecopy"}
    /\ dim \in 1..MaxD
    /\ primary \in PrimaryModels
    /\ pc = "new"
    /\ self = NoSelf
    /\ params = DefaultParams
    /\ gp = NoGP
    /\ fits = 0
    /\ call = NoCall

Constructed(r) ==
    /\ pc' = r.outcome
    /\ self' = r.self
    /\ gp' = r.gp
    /\ fits' = fits + r.gp.optimized
    /\ call' = NoCall

\* AcquisitionEI_DFT(model, space, ..., ei_dft_params) of EI_DFT.py
Construct ==
    /\ pc = "new"
    /\ variant = "dict"
    /\ \E prm \in DictParams(dim), fit \in Fits :
          /\ params' = prm
          /\ Constructed(AcquisitionEI_DFT_init(Jitter, prm, fit))
    /\ UNCHANGED <<variant, dim, primary>>

\* AcquisitionEI_DFT(model, space, data_fusion_data, ...) of the safecopy
ConstructSafecopy ==
    /\ pc = "new"
    /\ variant = "safecopy"
    /\ \E kw \in KwParams(dim), fit \in Fits :
          /\ params' = kw
          /\ Constructed(AcquisitionEI_DFT_init_safecopy(Jitter, kw, fit))
    /\ UNCHANGED <<variant, dim, primary>>

ComputeAcq ==
    /\ pc = "constructed"
    /\ \E x \in Batches(dim) :
          /\ call' = compute_acq(variant, self, primary, x)
          /\ self' = compute_acq_self(self)
    /\ UNCHANGED <<variant, dim, primary, pc, params, gp, fits>>

ComputeAcqWithGradients ==
    /\ pc = "constructed"
    /\ \E x \in Batches(dim), junk \in Garbage :
          /\ call' = compute_acq_withGradients(variant, self, primary, x,
                                               EmptyMatrix(x, junk))
          /\ self' = compute_acq_withGradients_self(self)
    /\ UNCHANGED <<variant, dim, primary, pc, params, gp, fits>>

\* the surrogates a caller of the module-level functions may pass
DirectModels == IF pc = "constructed" THEN {self.constraint_model}
                ELSE {NoModel, MConst, MSlope}

\* calc_P(points, GP_model) called directly, beta and midpoint at their defaults
CallCalcP ==
    /\ pc \in {"new", "constructed"}
    /\ \E x \in Batches(dim), m \in DirectModels :
          LET P == CalcP(variant, x, m, <<1, 40>>, Zero)
          IN  call' = [NoCall EXCEPT !.op = "calc_P", !.outcome = "returned",
                                     !.x = x, !.model = m, !.beta = <<1, 40>>,
                                     !.midpoint = Zero, !.mean = P[1],
                                     !.prob = P[2], !.arity = Len(P)]
    /\ UNCHANGED <<variant, dim, primary, pc, self, params, gp, fits>>

\* calc_gradient_of_P(x, constraint_model, beta, midpoint, lengthscale) called directly
CallCalcGradientOfP ==
    /\ pc \in {"new", "constructed"}
    /\ \E x \in Batches(dim), m \in DirectModels, junk \in Garbage :
          LET ls == IF m.none THEN <<500, 1>> ELSE m.lengthscale
              G == calc_gradient_of_P(variant, x, m, <<1, 40>>, Zero, ls,
                                      EmptyMatrix(x, junk))
          IN  call' = [NoCall EXCEPT !.op = "calc_gradient_of_P",
                                     !.outcome = "returned", !.x = x, !.model = m,
                                     !.beta = <<1, 40>>, !.midpoint = Zero,
                                     !.lengthscale = ls, !.dprob = G.g,
                                     !.written = G.written, !.x_after = G.x,
                                     !.delta = G.delta]
    /\ UNCHANGED <<variant, dim, primary, pc, self, params, gp, fits>>

\* the (mean, midpoint, beta) a caller of inv_sigmoid may pass, mean being an
\* array of two posterior means
SigmoidInputs ==
    {[mean |-> <<<<-2, 1>>, <<-1, 1>>>>, midpoint |-> Zero, beta |-> <<1, 40>>],
     [mean |-> <<Zero, <<1, 80>>>>, midpoint |-> Zero, beta |-> <<1, 40>>],
     [mean |-> <<<<-1, 80>>, <<20, 1>>>>, midpoint |-> Zero, beta |-> <<1, 40>>],
     [mean |-> <<<<1, 80>>, <<1, 40>>>>, midpoint |-> <<1, 80>>, beta |-> <<1, 40>>],
     [mean |-> <<<<-1, 1>>, One>>, midpoint |-> Zero, beta |-> One]}

\* inv_sigmoid(mean, midpoint, beta) of EI_DFT.py called directly
CallInvSigmoid ==
    /\ variant = "dict"
    /\ pc \in {"new", "constructed"}
    /\ \E a \in SigmoidInputs :
          call' = [NoCall EXCEPT
                      !.op = "inv_sigmoid", !.outcome = "returned",
                      !.mean = a.mean, !.midpoint = a.midpoint, !.beta = a.beta,
                      !.prob = [r \in 1..Len(a.mean) |->
                                   inv_sigmoid(a.mean[r], a.midpoint, a.beta)]]
    /\ UNCHANGED <<variant, dim, primary, pc, self, params, gp, fits>>

Next ==
    \/ Construct
    \/ ConstructSafecopy
    \/ ComputeAcq
    \/ ComputeAcqWithGradients
    \/ CallCalcP
    \/ CallCalcGradientOfP
    \/ CallInvSigmoid

Spec == Init /\ [][Next]_vars

\* ------------------------------- GP_model as a function of its arguments
\* what a caller may pass for lengthscale, variance and noise_variance: a
\* positive number, zero, a negative number, None
HyperValues == {<<2, 1>>, Zero, <<-1, 1>>, None}

\* a dataset of one row, and one whose inputs span [0, 2]
OneRowData(d, target) ==
    [none |-> FALSE, cols |-> Names(d) \o <<target>>,
     rows |-> <<ConstRow(d, One) \o <<One>>>>]
WideData(d, target) ==
    [none |-> FALSE, cols |-> Names(d) \o <<target>>,
     rows |-> <<ConstRow(d, Zero) \o <<<<-1, 1>>>>, ConstRow(d, <<2, 1>>) \o <<<<3, 1>>>>>>]

\* the arguments of a GP_model call; the keys name the parameters as the
\* dictionary of the constructor does
GPArgs(d) ==
    {[df_data |-> dd, df_target_var |-> "dGmix (ev/f.u.)", df_input_var |-> iv,
      gp_lengthscale |-> ls, gp_variance |-> vv, noise_variance |-> nv] :
        dd \in Datasets(d, "dGmix (ev/f.u.)")
               \cup {OneRowData(d, "dGmix (ev/f.u.)"), WideData(d, "dGmix (ev/f.u.)")},
        iv \in {Names(d), NoneList},
        ls \in HyperValues, vv \in HyperValues, nv \in HyperValues}

InitGP ==
    /\ variant \in {"dict", "safecopy"}
    /\ dim \in 1..MaxD
    /\ primary \in PrimaryModels
    /\ pc = "new"
    /\ self = NoSelf
    /\ params \in GPArgs(dim)
    /\ gp = NoGP
    /\ fits = 0
    /\ call = NoCall

\* GP_model(data_fusion_data, ...) of EI_DFT.py called with the arguments
CallGPModel ==
    /\ pc = "new"
    /\ variant = "dict"
    /\ \E fit \in Fits :
          gp' = GP_model(params.df_data, params.df_target_var, params.gp_lengthscale,
                         params.gp_variance, params.noise_variance,
                         params.df_input_var, fit)
    /\ pc' = "called"
    /\ fits' = fits + gp'.optimized
    /\ UNCHANGED <<variant, dim, primary, self, params, call>>

\* GP_model(data_fusion_data, ...) of the safecopy, which has no noise_variance
CallGPModelSafecopy ==
    /\ pc = "new"
    /\ variant = "safecopy"
    /\ \E fit \in Fits :
          gp' = GP_model_safecopy(params.df_data, params.df_target_var,
                                  params.gp_lengthscale, params.gp_variance,
                                  params.df_input_var, fit)
    /\ pc' = "called"
    /\ fits' = fits + gp'.optimized
    /\ UNCHANGED <<variant, dim, primary, self, params, call>>

NextGP ==
    \/ CallGPModel
    \/ CallGPModelSafecopy

SpecGP == InitGP /\ [][NextGP]_vars

\* ================================================================ properties
AcqCalls == {"_compute_acq", "_compute_acq_withGradients"}
GradCalls == {"calc_gradient_of_P", "_compute_acq_withGradients"}
\* the last call was one of `ops` and it returned
Returned(ops) == call.op \in ops /\ call.outcome = "returned"
\* the step delta of the last gradient call: lengthscale / 1000
DeltaX == RDiv(call.lengthscale, <<1000, 1>>)

\* C1: calc_gradient_of_P computes the symmetric central difference
\* (p_upper - p_lower) / (2*delta) for every input dimension i in 1..d before
\* it returns: every column of the returned [n, d] matrix has been written by
\* the loop, for every d >= 1.
C1_EveryColumnWritten ==
    Returned(GradCalls) =>
        \A i \in 1..Cols(call.x) :
            /\ i \in call.written
            /\ \A r \in 1..Rows(call.x) :
                  call.dprob[r][i] = GradColumn(variant, call.x, call.model, call.beta,
                                                call.midpoint, DeltaX, i)[r]

\* a gradient of a batch of two or more dimensions has come back with only
\* its first column written, the second holding what np.empty left there
C1_OnlyFirstColumnWritten ==
    /\ Returned({"calc_gradient_of_P"})
    /\ Cols(call.x) >= 2
    /\ call.written = {1}
    /\ call.dprob[1][2] = <<3, 1>>

\* C2: _compute_acq_withGradients returns (EI*prob, d_EI*prob + EI*d_prob),
\* EI being the primary Expected Improvement not yet multiplied by prob: the
\* second term of the product rule uses the plain EI.
C2_ProductRuleUsesPlainEI ==
    Returned({"_compute_acq_withGradients"}) =>
        /\ call.value = [r \in 1..Rows(call.x) |-> RMul(call.ei[r], call.prob[r])]
        /\ call.grad = [r \in 1..Rows(call.x) |-> [k \in 1..Cols(call.x) |->
                           RAdd(RMul(call.dei[r][k], call.prob[r]),
                                RMul(call.ei[r], call.dprob[r][k]))]]

\* a returned gradient whose first column is d_EI*prob + (EI*prob)*d_prob and
\* differs from d_EI*prob + EI*d_prob
C2_SecondTermUsesScaledEI ==
    /\ Returned({"_compute_acq_withGradients"})
    /\ ~HasNaN(call.x)
    /\ call.grad[1][1] = RAdd(RMul(call.dei[1][1], call.prob[1]),
                              RMul(RMul(call.ei[1], call.prob[1]), call.dprob[1][1]))
    /\ call.grad[1][1] # RAdd(RMul(call.dei[1][1], call.prob[1]),
                              RMul(call.ei[1], call.dprob[1][1]))

\* C3: when the auxiliary surrogate is None, calc_P returns mean 0.5 and
\* probability exactly 1 for every one of the n points, whatever the
\* coordinates, beta and midpoint, and _compute_acq(x) equals the plain
\* Expected Improvement s*(u*Phi + phi).
C3_NoneSurrogateIsPlainEI ==
    (call.outcome = "returned" /\ call.model.none) =>
        /\ (call.op \in ({"calc_P"} \cup AcqCalls) =>
               /\ Len(call.mean) = Rows(call.x)
               /\ Len(call.prob) = Rows(call.x)
               /\ \A r \in 1..Rows(call.x) :
                     call.mean[r] = Half /\ call.prob[r] = One)
        /\ (call.op = "_compute_acq" =>
               call.value = PrimaryEI(self.jitter, get_fmin(primary),
                                      predict(primary, call.x)))

\* _compute_acq has returned a number other than zero on an instance whose
\* surrogate is None
C3_PlainEIReturned ==
    /\ Returned({"_compute_acq"})
    /\ call.model.none
    /\ ~HasNaN(call.x)
    /\ call.prob[1] = One
    /\ IsFinite(call.value[1])
    /\ call.value[1] # Zero

\* the constructor was given no auxiliary knowledge: ei_dft_params omitted,
\* or no df_model and a dataset that is absent, None or without rows
NoAuxiliaryKnowledge ==
    \/ params.isNone
    \/ /\ "df_model" \notin params.has
       /\ \/ "df_data" \notin params.has
          \/ params.df_data.none
          \/ Len(params.df_data.rows) = 0

\* C4: constructing AcquisitionEI_DFT with no auxiliary knowledge is not an
\* error: the constructor completes without raising, leaves constraint_model
\* None, and the evaluation calls that follow run with probability 1.
C4_NoAuxiliaryKnowledgeConstructs ==
    (pc # "new" /\ NoAuxiliaryKnowledge) =>
        /\ pc = "constructed"
        /\ self.constraint_model.none
        /\ (call.op \in AcqCalls =>
               /\ call.outcome = "returned"
               /\ \A r \in 1..Rows(call.x) : call.prob[r] = One)

\* the constructor of EI_DFT.py, given no ei_dft_params, has raised
C4_DefaultsRaise ==
    /\ variant = "dict"
    /\ params.isNone
    /\ pc = "AttributeError"

\* C5: for a batch x with a NaN coordinate, _compute_acq and
\* _compute_acq_withGradients raise InvalidInput before the primary model's
\* predict / predict_withGradients is called, and return no value or gradient.
C5_NaNBatchRejected ==
    (call.op \in AcqCalls /\ HasNaN(call.x)) =>
        /\ call.outcome = "InvalidInput"
        /\ ~call.predicted
        /\ call.value = <<>>
        /\ call.grad = <<>>

\* a batch with a NaN coordinate went through the primary model and a NaN
\* acquisition value was returned for it
C5_NaNValueReturned ==
    /\ Returned(AcqCalls)
    /\ HasNaN(call.x)
    /\ call.predicted
    /\ \E r \in 1..Rows(call.x) : IsNaN(call.value[r])

\* C6: after AcquisitionEI_DFT is constructed from any ei_dft_params
\* dictionary, self.beta is strictly positive and self.midpoint is defined:
\* an absent p_beta gives beta = 0.025, an absent p_midpoint gives
\* midpoint = 0 and leaves beta untouched.
C6_BetaPositiveMidpointDefined ==
    (variant = "dict" /\ pc = "constructed") =>
        /\ self.midpoint # Unset
        /\ IsFinite(self.beta)
        /\ RLess(Zero, self.beta)
        /\ ("p_beta" \notin ParamsInUse(params).has => self.beta = <<1, 40>>)
        /\ ("p_midpoint" \notin ParamsInUse(params).has =>
               /\ self.midpoint = Zero
               /\ self.beta = IF "p_beta" \in ParamsInUse(params).has
                              THEN ParamsInUse(params).p_beta ELSE <<1, 40>>)

\* an instance constructed from a dictionary without p_midpoint: beta is 0
\* and midpoint was never assigned
C6_BetaZeroMidpointUnset ==
    /\ variant = "dict"
    /\ pc = "constructed"
    /\ "p_midpoint" \notin ParamsInUse(params).has
    /\ self.beta = Zero
    /\ self.midpoint = Unset

\* the constructor optimised the surrogate's hyperparameters: it built the
\* surrogate itself, from a dataset with rows
FitsInConstructor ==
    /\ "df_model" \notin ParamsInUse(params).has
    /\ "df_data" \in ParamsInUse(params).has
    /\ ~ParamsInUse(params).df_data.none
    /\ Len(ParamsInUse(params).df_data.rows) > 0

\* a step leaves constraint_model, beta, midpoint, lengthscale and the
\* number of fits as they were
EvaluationFrame ==
    /\ self'.constraint_model = self.constraint_model
    /\ self'.beta = self.beta
    /\ self'.midpoint = self.midpoint
    /\ self'.lengthscale = self.lengthscale
    /\ fits' = fits

\* C7 (as amended): after construction, no sequence of _compute_acq,
\* _compute_acq_withGradients, calc_P, calc_gradient_of_P calls changes
\* constraint_model, beta, midpoint or lengthscale, and none of them fits the
\* surrogate; the surrogate is fitted at most once, and only inside the
\* constructor: exactly once when the constructor builds it from a dataset
\* with rows, not at all when a model is injected through df_model or the
\* dataset is None or empty.
C7_FrameAndAtMostOneFit ==
    /\ [](/\ fits <= 1
          /\ (pc = "new" => fits = 0)
          /\ (pc = "constructed" => fits = IF FitsInConstructor THEN 1 ELSE 0))
    /\ [][pc = "constructed" => EvaluationFrame]_vars

\* an evaluation call has returned on an instance whose fitted surrogate was
\* injected, so that nothing was fitted
C7_InjectedModelNeverFitted ==
    /\ pc = "constructed"
    /\ Returned(AcqCalls)
    /\ ~self.constraint_model.none
    /\ "df_model" \in ParamsInUse(params).has
    /\ fits = 0

\* C7 (as stated): the four attributes are unchanged by every call after
\* construction, and the surrogate is fitted exactly once, inside the
\* constructor.
C7_FittedExactlyOnce ==
    [][/\ (pc' = "constructed" => fits' = 1)
       /\ (pc = "constructed" => EvaluationFrame)]_vars

\* the last call applied the sigmoid to finite means with beta > 0: a direct
\* call of inv_sigmoid, or calc_P / an evaluation call on a fitted surrogate
SigmoidApplied ==
    /\ \/ Returned({"inv_sigmoid"})
       \/ Returned({"calc_P"} \cup AcqCalls) /\ ~call.model.none
    /\ IsFinite(call.beta) /\ RLess(Zero, call.beta)
    /\ IsFinite(call.midpoint)
SigmoidRows == {r \in 1..Len(call.mean) : IsFinite(call.mean[r])}
\* (mean - midpoint) / beta
SigmoidArg(r) == RDiv(RSub(call.mean[r], call.midpoint), call.beta)

FlatSurrogate == call.model.none \/ (call.model.w = Zero /\ ~HasNaN(call.x))

\* C9: when the surrogate has a constant posterior mean (the None surrogate
\* included), calc_gradient_of_P returns an [n, d] matrix that is zero in
\* every one of its d columns, for every d >= 1; with a None surrogate
\* _compute_acq_withGradients therefore returns exactly the plain EI gradient
\* dsdx*phi - Phi*dmdx.
C9_FlatSurrogateZeroGradient ==
    (Returned(GradCalls) /\ FlatSurrogate) =>
        /\ \A r \in 1..Rows(call.x) : \A c \in 1..Cols(call.x) : call.dprob[r][c] = Zero
        /\ (call.op = "_compute_acq_withGradients" /\ call.model.none =>
               call.grad = call.dei)

\* the gradient of a None surrogate's probability has come back zero in its
\* first column and not zero in its second
C9_SecondColumnNotZero ==
    /\ Returned({"calc_gradient_of_P"})
    /\ call.model.none
    /\ Cols(call.x) >= 2
    /\ call.dprob[1][1] = Zero
    /\ call.dprob[1][2] # Zero

\* GP_model of EI_DFT.py was called with a dataset that has rows and the
\* columns asked for, so that it went on to build and bound the model
GPModelBounds == variant = "dict" /\ gp.called /\ gp.ymax2 # None

\* C10: in GP_model the bounds applied before fitting are well-formed for
\* every accepted argument combination, variance or noise_variance None or
\* non-positive included: the kernel-variance bound is [v*1e-12, v + max(Y)^2]
\* and the noise bound is [1e-12, nv + max(Y)^2] with v and nv the
\* auto-corrected values, each lower bound is strictly positive, lower <
\* upper, applying the bounds never raises, and the initial hyperparameter
\* lies inside its interval.
C10_BoundsWellFormed ==
    GPModelBounds =>
        /\ gp.outcome = "returned"
        /\ gp.var_lo = Tiny(gp.kernel_var)
        /\ gp.var_hi = Plain(RAdd(gp.kernel_var, gp.ymax2))
        /\ gp.noise_lo = Tiny(One)
        /\ gp.noise_hi = EAdd(gp.noise_var, Plain(gp.ymax2))
        /\ EPositive(gp.var_lo) /\ EPositive(gp.noise_lo)
        /\ ELess(gp.var_lo, gp.var_hi) /\ ELess(gp.noise_lo, gp.noise_hi)
        /\ ELeq(gp.var_lo, Plain(gp.kernel_var)) /\ ELeq(Plain(gp.kernel_var), gp.var_hi)
        /\ ELeq(gp.noise_lo, gp.noise_var) /\ ELeq(gp.noise_var, gp.noise_hi)

\* GP_model was given variance None, corrected the initial kernel variance
\* to a positive number, and raised TypeError when bounding it
C10_VarianceNoneRaises ==
    /\ GPModelBounds
    /\ gp.variance_arg = None
    /\ RLess(Zero, gp.kernel_var)
    /\ gp.outcome = "TypeError"
    /\ pc = "TypeError"

\* the target column of the dataset passed to GP_model, and its inputs
ArgY == Flatten(Select(params.df_data, <<params.df_target_var>>))
ArgX == Flatten(Select(params.df_data, params.df_input_var))
\* a hyperparameter was supplied and is positive
Supplied(a) == a # None /\ RLess(Zero, a)

NoData == params.df_data.none \/ Len(params.df_data.rows) = 0

\* C12: GP_model returns None if and only if the dataset is None or has zero
\* rows; in those two cases it returns without raising and without touching
\* the target / input variable arguments, and for every dataset with at
\* least one row it returns a fitted (non-None) regression model.
C12_NoneIffNoData ==
    pc = "called" =>
        /\ (NoData => gp.outcome = "returned" /\ gp.model.none)
        /\ (gp.outcome = "returned" => (gp.model.none <=> NoData))
        /\ (~NoData /\ ~MissingColumn(params.df_data, params.df_target_var,
                                      params.df_input_var)
               => gp.outcome = "returned" /\ ~gp.model.none)

\* GP_model was given a dataset with rows and its columns, and variance
\* None: it raised instead of returning a model
C12_DatasetWithRowsRaises ==
    /\ pc = "called"
    /\ ~NoData
    /\ ~MissingColumn(params.df_data, params.df_target_var, params.df_input_var)
    /\ params.gp_variance = None
    /\ gp.outcome = "TypeError"
    /\ gp.model.none

\* GP_model was given no dataset and unusable variable names, and returned
\* None
C12_NoDataReturnsNone ==
    /\ pc = "called"
    /\ NoData
    /\ params.df_input_var = NoneList
    /\ gp.outcome = "returned"
    /\ gp.model.none

\* C13: calc_gradient_of_P never mutates its input batch x: for every x,
\* surrogate and lengthscale the contents of x after the call equal its
\* contents before the call, each perturbation (-delta and +delta along
\* dimension i only) being applied to a fresh copy.
C13_BatchNotMutated ==
    Returned(GradCalls) => call.x_after = call.x

\* calc_gradient_of_P has returned a gradient other than zero, computed from
\* the two perturbed copies, and the batch is as it was
C13_PerturbedCopiesOnly ==
    /\ Returned({"calc_gradient_of_P"})
    /\ ~call.model.none
    /\ ~HasNaN(call.x)
    /\ call.dprob[1][1] # Zero
    /\ Perturb(call.x, 1, call.delta).x_l # call.x
    /\ Perturb(call.x, 1, call.delta).x_u # call.x
    /\ call.x_after = call.x

\* the constructor of EI_DFT.py has come to its plotting step (line 113)
\* with beta and midpoint assigned and a list of input variables
PlottingReached ==
    /\ variant = "dict"
    /\ pc # "new"
    /\ self.beta # Unset
    /\ self.midpoint # Unset
    /\ self.data_fusion_input_variables # NoneList

\* C14: visualisation never blocks construction: for every number of
\* data-fusion input variables (3 or not) and every target-variable name, the
\* recognised 'dGmix (ev/f.u.)' and 'Yellowness' included, the constructor
\* completes and the instance is usable for _compute_acq; the plot_P call
\* made for 3 input variables consumes calc_P's (mean, probability) 2-tuple
\* without raising.
C14_PlottingNeverBlocks ==
    PlottingReached =>
        /\ pc = "constructed"
        /\ (call.op = "_compute_acq" => call.outcome = "returned")

\* with 3 input variables and a recognised target, a fitted surrogate and
\* beta, midpoint assigned, the constructor has raised ValueError
C14_PlotUnpackRaises ==
    /\ PlottingReached
    /\ Len(self.data_fusion_input_variables) = 3
    /\ self.data_fusion_target_variable \in Recognised
    /\ ~self.constraint_model.none
    /\ plot_P(variant, self.constraint_model, self.beta, self.midpoint).outcome
          = "ValueError"
    /\ pc = "ValueError"

\* the lengthscale of the instance's surrogate, divided by 1000
FittedStep == RDiv(self.constraint_model.lengthscale, <<1000, 1>>)

\* C15: the finite-difference step used by _compute_acq_withGradients is
\* delta = L/1000 with L the lengthscale read back from the fitted (or
\* injected) auxiliary model, not the gp_lengthscale passed in the
\* configuration; the same delta is used for every dimension.
C15_StepFromFittedLengthscale ==
    (variant = "dict" /\ Returned({"_compute_acq_withGradients"})) =>
        /\ call.delta = FittedStep
        /\ \A i \in call.written : \A r \in 1..Rows(call.x) :
              call.dprob[r][i] = GradColumn(variant, call.x, self.constraint_model,
                                            self.beta, self.midpoint, FittedStep, i)[r]

\* a gradient was returned by an instance whose surrogate was fitted from
\* data to a lengthscale other than the configured gp_lengthscale
C15_FittedLengthscaleDiffers ==
    /\ variant = "dict"
    /\ Returned({"_compute_acq_withGradients"})
    /\ FitsInConstructor
    /\ self.constraint_model.lengthscale # gp.kernel_ls
    /\ call.delta # RDiv(gp.kernel_ls, <<1000, 1>>)
    /\ call.delta = FittedStep

\* a dataset with rows was supplied under the key df_data
DatasetSupplied ==
    /\ "df_data" \in ParamsInUse(params).has
    /\ ~ParamsInUse(params).df_data.none
    /\ Len(ParamsInUse(params).df_data.rows) > 0

\* a fitted model was supplied under the key df_model
ModelInjected ==
    /\ "df_model" \in ParamsInUse(params).has
    /\ ~ParamsInUse(params).df_model.none

\* C16: the constructor of EI_DFT.py takes the surrogate from df_model only
\* when a fitted model is injected; when df_model is absent or None and
\* df_data is a dataset with rows, GP_model is called on df_data with the
\* configured lengthscale and variance and the dataset is kept.
C16_SuppliedDatasetIsUsed ==
    (variant = "dict" /\ pc # "new") =>
        /\ ModelInjected =>
              /\ ~gp.called
              /\ self.constraint_model = ParamsInUse(params).df_model
        /\ (~ModelInjected /\ DatasetSupplied) =>
              /\ gp.called
              /\ self.data_fusion_data = ParamsInUse(params).df_data
              /\ self.constraint_model = gp.model

\* df_model is present as None next to a dataset with rows: the dataset is
\* dropped, GP_model is never called, and line 97 raises on the None model
C16_NoneModelDropsDataset ==
    /\ variant = "dict"
    /\ "df_model" \in ParamsInUse(params).has
    /\ ParamsInUse(params).df_model.none
    /\ DatasetSupplied
    /\ pc = "AttributeError"
    /\ ~gp.called
    /\ self.data_fusion_data = NoneData
    /\ self.constraint_model.none

\* what _compute_acq would return now for the batch x of the last call
ValueNow(x) == compute_acq(variant, self, primary, x).value
\* the value component _compute_acq_withGradients would return now
ValueWithGradientsNow(x) ==
    compute_acq_withGradients(variant, self, primary, x, EmptyMatrix(x, Zero)).value

\* C17: on one instance and one batch x the value component returned by
\* _compute_acq_withGradients(x) equals the value _compute_acq(x) returns,
\* both being EI(x) * prob(x), whichever was called first and whatever
\* evaluation calls came in between.
C17_ValueComponentsAgree ==
    /\ Returned({"_compute_acq_withGradients"}) =>
          /\ call.value = ValueNow(call.x)
          /\ call.value = [r \in 1..Rows(call.x) |-> RMul(call.ei[r], call.prob[r])]
    /\ Returned({"_compute_acq"}) =>
          /\ call.value = ValueWithGradientsNow(call.x)
          /\ call.value = [r \in 1..Rows(call.x) |-> RMul(call.ei[r], call.prob[r])]

\* the gradient call returned a finite value that the probability has
\* scaled, and _compute_acq gives the same value
C17_ScaledValueAgrees ==
    /\ Returned({"_compute_acq_withGradients"})
    /\ IsFinite(call.value[1])
    /\ call.value[1] # Zero
    /\ call.value[1] # call.ei[1]
    /\ call.value = ValueNow(call.x)

====
